---- MODULE Spec2Model ----
(***************************************************************************)
(* A model of the single-call NetLogo -> LUCIM agent:                      *)
(*   - response parsing (_parse_single_call_response), stage saving and    *)
(*     the deterministic audit step of main() in agent_netlogo_to_lucim.py *)
(*   - API key lookup in utils_api_key.py                                  *)
(* Texts are sequences of lexemes (tokens); every lexeme counts as one     *)
(* position, so str.find / slicing work on token positions.                *)
(***************************************************************************)
EXTENDS Integers, Sequences, FiniteSets, TLC

(***************************************************************************)
(* Bounds of the model                                                     *)
(***************************************************************************)
\* largest number of prose lexemes put before / after the payload of a response
MaxPad == 1
\* largest number of lexemes cut from the end of a response (truncated output)
MaxCut == 1

(***************************************************************************)
(* Lexemes                                                                 *)
(***************************************************************************)
LB == "{"
RB == "}"
COMMA == ","
DQ == "\""
NL == "\n"
\* FJ is the lexeme ```json and F3 the lexeme ``` (a backquote cannot be written in a string)
FJ == "<fence>json"
F3 == "<fence>"
SU == "@startuml"
EU == "@enduml"
PROSE == "prose"
NULLTOK == "null"
LISTTOK == "[]"

\* the object keys the program reads; a key lexeme is the quoted key and its colon
KeyNames == <<"operation_model", "scenario", "plantuml_diagram", "data",
              "plantuml-diagram", "errors", "c">>
KeyToks == <<"\"operation_model\":", "\"scenario\":", "\"plantuml_diagram\":", "\"data\":",
             "\"plantuml-diagram\":", "\"errors\":", "\"c\":">>
KeyIdx(k) == CHOOSE i \in 1..Len(KeyNames) : KeyNames[i] = k
KeyTok(k) == KeyToks[KeyIdx(k)]
IsKeyTok(t) == \E i \in 1..Len(KeyToks) : KeyToks[i] = t
KeyOfTok(t) == KeyNames[CHOOSE i \in 1..Len(KeyToks) : KeyToks[i] = t]

(***************************************************************************)
(* Python str operations on token sequences (0-based positions, -1 = none) *)
(***************************************************************************)
\* does lexeme t contain the searched substring pat
Matches(t, pat) == IF pat = F3 THEN t \in {F3, FJ} ELSE t = pat

\* s.find(pat, from)
Find(s, pat, from) ==
    LET hits == {i \in from..(Len(s) - 1) : Matches(s[i + 1], pat)}
    IN IF hits = {} THEN -1 ELSE CHOOSE i \in hits : \A j \in hits : i <= j

\* s.rfind(pat)
RFind(s, pat) ==
    LET hits == {i \in 0..(Len(s) - 1) : Matches(s[i + 1], pat)}
    IN IF hits = {} THEN -1 ELSE CHOOSE i \in hits : \A j \in hits : i >= j

\* pat in s
Contains(s, pat) == Find(s, pat, 0) >= 0

\* s[a:b] for 0 <= a
Slice(s, a, b) ==
    LET hi == IF b > Len(s) THEN Len(s) ELSE b
    IN IF hi <= a THEN <<>> ELSE [i \in 1..(hi - a) |-> s[a + i]]

\* s.strip()
Strip(s) ==
    LET keep == {i \in 1..Len(s) : s[i] # NL}
    IN IF keep = {} THEN <<>>
       ELSE LET lo == CHOOSE i \in keep : \A j \in keep : i <= j
                hi == CHOOSE i \in keep : \A j \in keep : i >= j
            IN [i \in 1..(hi - lo + 1) |-> s[lo + i - 1]]

(***************************************************************************)
(* JSON values: None/null, the empty list, strings (their lexemes), objects *)
(***************************************************************************)
Null == [t |-> "null", s |-> <<>>, m |-> <<>>]
Str(s) == [t |-> "str", s |-> s, m |-> <<>>]
Obj(m) == [t |-> "obj", s |-> <<>>, m |-> m]
EmptyObj == Obj(<<>>)
EmptyList == [t |-> "list", s |-> <<>>, m |-> <<>>]

IsDict(v) == v.t = "obj"
IsStr(v) == v.t = "str"
HasKey(v, k) == IsDict(v) /\ k \in DOMAIN v.m
\* dict.get(k) (None when the key is missing)
Get(v, k) == IF HasKey(v, k) THEN v.m[k] ELSE Null
\* Python truth value
Truthy(v) ==
    CASE v.t = "null" -> FALSE
      [] v.t = "list" -> FALSE
      [] v.t = "str" -> Len(v.s) > 0
      [] OTHER -> DOMAIN v.m # {}

\* the keys of an object in the order KeyNames lists them
RECURSIVE KeysFrom(_, _)
KeysFrom(v, i) ==
    IF i > Len(KeyNames) THEN <<>>
    ELSE (IF KeyNames[i] \in DOMAIN v.m THEN <<KeyNames[i]>> ELSE <<>>) \o KeysFrom(v, i + 1)

\* json.dumps(v)
RECURSIVE JsonDumps(_), DumpMembers(_, _)
JsonDumps(v) ==
    CASE v.t = "null" -> <<NULLTOK>>
      [] v.t = "list" -> <<LISTTOK>>
      [] v.t = "str" -> <<DQ>> \o v.s \o <<DQ>>
      [] OTHER -> <<LB>> \o DumpMembers(v, KeysFrom(v, 1)) \o <<RB>>
DumpMembers(v, ks) ==
    IF ks = <<>> THEN <<>>
    ELSE <<KeyTok(Head(ks))>> \o JsonDumps(v.m[Head(ks)])
         \o (IF Len(ks) > 1 THEN <<COMMA>> ELSE <<>>) \o DumpMembers(v, Tail(ks))

\* json.loads(toks): [ok, v]; not ok is json.JSONDecodeError
ParseFail == [ok |-> FALSE, v |-> Null, n |-> 0]
RECURSIVE SkipWs(_, _)
SkipWs(toks, i) == IF i <= Len(toks) /\ toks[i] = NL THEN SkipWs(toks, i + 1) ELSE i

RECURSIVE ParseValue(_, _), ParseMembers(_, _, _)
ParseValue(toks, i0) ==
    LET i == SkipWs(toks, i0)
    IN IF i > Len(toks) THEN ParseFail
       ELSE IF toks[i] = NULLTOK THEN [ok |-> TRUE, v |-> Null, n |-> i + 1]
       ELSE IF toks[i] = LISTTOK THEN [ok |-> TRUE, v |-> EmptyList, n |-> i + 1]
       ELSE IF toks[i] = DQ THEN
            LET q == Find(toks, DQ, i)   \* 0-based position of the closing quote
            IN IF q < 0 THEN ParseFail
               ELSE LET body == Slice(toks, i, q)
                    IN IF \E k \in 1..Len(body) : body[k] = NL
                       THEN ParseFail    \* raw control character in a string
                       ELSE [ok |-> TRUE, v |-> Str(body), n |-> q + 2]
       ELSE IF toks[i] = LB THEN
            LET j == SkipWs(toks, i + 1)
            IN IF j <= Len(toks) /\ toks[j] = RB
               THEN [ok |-> TRUE, v |-> EmptyObj, n |-> j + 1]
               ELSE ParseMembers(toks, j, <<>>)
       ELSE ParseFail
ParseMembers(toks, i0, acc) ==
    LET i == SkipWs(toks, i0)
    IN IF i > Len(toks) \/ ~IsKeyTok(toks[i]) THEN ParseFail
       ELSE LET r == ParseValue(toks, i + 1)
            IN IF ~r.ok THEN ParseFail
               ELSE LET acc2 == (KeyOfTok(toks[i]) :> r.v) @@ acc
                        j == SkipWs(toks, r.n)
                    IN IF j > Len(toks) THEN ParseFail
                       ELSE IF toks[j] = COMMA THEN ParseMembers(toks, j + 1, acc2)
                       ELSE IF toks[j] = RB THEN [ok |-> TRUE, v |-> Obj(acc2), n |-> j + 1]
                       ELSE ParseFail

JsonLoads(toks) ==
    LET r == ParseValue(toks, 1)
    IN IF r.ok /\ SkipWs(toks, r.n) > Len(toks) THEN [ok |-> TRUE, v |-> r.v]
       ELSE [ok |-> FALSE, v |-> Null]

(***************************************************************************)
(* _parse_single_call_response                                             *)
(***************************************************************************)
StageKeys == {"operation_model", "scenario", "plantuml_diagram"}
\* artifacts = {"operation_model": None, "scenario": None, "plantuml_diagram": None}
NoArtifacts == [k \in StageKeys |-> Null]

\* len("```json"), len("```"), len("@enduml") in lexemes
FenceJsonLen == 1
FenceLen == 1
EndUmlLen == 1

\* the exceptions the parser's except clause catches
CaughtOnlyKeyError(exc) == exc \in {"KeyError"}
Caught(exc) == exc \in {"JSONDecodeError", "KeyError", "ValueError"}

\* remove markdown code fences if present
StripFences(json_text) ==
    IF Contains(json_text, FJ)
    THEN LET start == Find(json_text, FJ, 0) + FenceJsonLen
             end == Find(json_text, F3, start)
         IN IF end > start THEN Strip(Slice(json_text, start, end)) ELSE json_text
    ELSE IF Contains(json_text, F3)
    THEN LET start == Find(json_text, F3, 0) + FenceLen
             end == Find(json_text, F3, start)
         IN IF end > start THEN Strip(Slice(json_text, start, end)) ELSE json_text
    ELSE json_text

\* the schema guards on the decoded object
GuardStageAnyDict(parsed, k) ==
    IF HasKey(parsed, k) /\ IsDict(parsed.m[k]) THEN parsed.m[k] ELSE Null
GuardStage(parsed, k) ==
    IF HasKey(parsed, k) /\ IsDict(parsed.m[k]) /\ HasKey(parsed.m[k], "data")
    THEN parsed.m[k] ELSE Null
GuardPuml(parsed) ==
    IF /\ HasKey(parsed, "plantuml_diagram")
       /\ IsDict(parsed.m["plantuml_diagram"])
       /\ HasKey(parsed.m["plantuml_diagram"], "data")
       /\ IsDict(parsed.m["plantuml_diagram"].m["data"])
       /\ HasKey(parsed.m["plantuml_diagram"].m["data"], "plantuml-diagram")
    THEN parsed.m["plantuml_diagram"] ELSE Null
ExtractStructured(parsed) ==
    [k \in StageKeys |->
        IF k = "plantuml_diagram" THEN GuardPuml(parsed) ELSE GuardStage(parsed, k)]

\* fallback: look for @startuml ... @enduml in the response text
ExtractFallbackGuessesModel(response_text) ==
    [NoArtifacts EXCEPT !["operation_model"] = Obj(("data" :> Str(response_text)))]
ExtractFallback(response_text) ==
    LET plantuml_start == Find(response_text, SU, 0)
        plantuml_end == Find(response_text, EU, 0)
    IN IF plantuml_start >= 0 /\ plantuml_end > plantuml_start
       THEN [NoArtifacts EXCEPT !["plantuml_diagram"] =
                Obj(("data" :> Obj(("plantuml-diagram" :>
                        Str(Slice(response_text, plantuml_start, plantuml_end + EndUmlLen)))))
                    @@ ("errors" :> EmptyList))]
       ELSE NoArtifacts

\* response_text: [kind |-> "none" | "other" | "str", toks]; the result names the
\* exception that leaves the function ("none": it returns) and the path taken
ParseSingleCallResponse(response_text) ==
    IF response_text.kind # "str" \/ response_text.toks = <<>>
    THEN [raised |-> "none", path |-> "empty", artifacts |-> NoArtifacts]
    ELSE LET json_text == StripFences(response_text.toks)
             json_start == Find(json_text, LB, 0)
             json_end == RFind(json_text, RB) + 1
             fallback == [raised |-> "none", path |-> "fallback",
                          artifacts |-> ExtractFallback(response_text.toks)]
         IN IF json_start >= 0 /\ json_end > json_start
            THEN LET loaded == JsonLoads(Slice(json_text, json_start, json_end))
                 IN IF loaded.ok
                    THEN [raised |-> "none", path |-> "json",
                          artifacts |-> ExtractStructured(loaded.v)]
                    ELSE IF Caught("JSONDecodeError") THEN fallback
                    ELSE [raised |-> "JSONDecodeError", path |-> "json", artifacts |-> <<>>]
            ELSE fallback

(***************************************************************************)
(* The deterministic audit engine (utils_audit_operation_model,            *)
(* utils_audit_scenario, utils_audit_diagram), which main() imports.       *)
(* An artifact's elements are lexemes; rule r is violated by an artifact   *)
(* that holds r's trigger element.                                         *)
(***************************************************************************)
ParseRuleId == "R-PARSE-000"
Catalog == <<
    [id |-> "R-OM-001", kind |-> "operation_model", severity |-> "error",
     needs |-> {}, trig |-> "v1"],
    [id |-> "R-OM-002", kind |-> "operation_model", severity |-> "warning",
     needs |-> {}, trig |-> "v2"],
    [id |-> "R-SC-001", kind |-> "scenario", severity |-> "error",
     needs |-> {}, trig |-> "v1"],
    [id |-> "R-SC-002", kind |-> "scenario", severity |-> "warning",
     needs |-> {}, trig |-> "v2"],
    [id |-> "R-SC-003", kind |-> "scenario", severity |-> "error",
     needs |-> {"operation_model"}, trig |-> "v3"],
    [id |-> "R-DIAG-001", kind |-> "plantuml_diagram", severity |-> "error",
     needs |-> {}, trig |-> "v1"],
    [id |-> "R-DIAG-002", kind |-> "plantuml_diagram", severity |-> "warning",
     needs |-> {"scenario"}, trig |-> "v3"] >>

RulesFor(kind) == LET OfKind(r) == r.kind = kind IN SelectSeq(Catalog, OfKind)
IdsOf(rules) == [i \in 1..Len(rules) |-> rules[i].id]

\* parse(raw_text, kind): total; a value that is no JSON object and no JSON text
\* of an object (for a diagram: no text) is parse-failed
NormalizeJson(v) ==
    LET obj == IF IsDict(v) THEN [ok |-> TRUE, v |-> v]
               ELSE IF IsStr(v) THEN JsonLoads(v.s)
               ELSE [ok |-> FALSE, v |-> Null]
    IN IF obj.ok /\ IsDict(obj.v)
       THEN [failed |-> FALSE,
             elems |-> IF IsStr(Get(obj.v, "c")) THEN Get(obj.v, "c").s ELSE <<>>]
       ELSE [failed |-> TRUE, elems |-> <<>>]
NormalizeDiagram(v) ==
    IF IsStr(v) THEN [failed |-> FALSE, elems |-> v.s] ELSE [failed |-> TRUE, elems |-> <<>>]
Normalize(kind, v) ==
    IF kind = "plantuml_diagram" THEN NormalizeDiagram(v) ELSE NormalizeJson(v)

\* a companion is usable when it was passed (not None) and parses
CompanionsPresent(companions) ==
    {k \in DOMAIN companions : companions[k] # Null /\ ~Normalize(k, companions[k]).failed}

PositionOf(elems, e) == CHOOSE i \in 1..Len(elems) : elems[i] = e
Violation(r, elems) ==
    [id |-> r.id, location |-> PositionOf(elems, r.trig),
     message |-> r.trig, severity |-> r.severity]
ParseViolation ==
    [id |-> ParseRuleId, location |-> 0, message |-> "parse error", severity |-> "error"]

\* the rule evaluator on a normalized artifact: rules in catalog order
IsApplicable(r, present) == r.needs \subseteq present
IsViolated(r, art, present) ==
    IsApplicable(r, present) /\ \E i \in 1..Len(art.elems) : art.elems[i] = r.trig
ViolationsOf(art, bad) == [i \in 1..Len(bad) |-> Violation(bad[i], art.elems)]
ViolatedRules(rules, art, present) ==
    LET Hit(r) == IsViolated(r, art, present) IN SelectSeq(rules, Hit)
Coverage(rules, present) ==
    LET Applicable(r) == IsApplicable(r, present)
        NotApplicable(r) == ~IsApplicable(r, present)
    IN [total_rules_in_dsl |-> Len(rules),
        evaluated |-> IdsOf(SelectSeq(rules, Applicable)),
        not_applicable |-> IdsOf(SelectSeq(rules, NotApplicable))]
AuditResult(violations, coverage) ==
    [verdict |-> \A i \in 1..Len(violations) : violations[i].severity # "error",
     violations |-> violations, coverage |-> coverage]
EvaluateRules(rules, art, present) ==
    IF art.failed
    THEN AuditResult(<<ParseViolation>>,
                     [total_rules_in_dsl |-> Len(rules), evaluated |-> <<>>,
                      not_applicable |-> IdsOf(rules)])
    ELSE AuditResult(ViolationsOf(art, ViolatedRules(rules, art, present)),
                     Coverage(rules, present))
\* evaluate(artifact, companions, catalog) -> AuditResult
Evaluate(kind, v, companions) ==
    EvaluateRules(RulesFor(kind), Normalize(kind, v), CompanionsPresent(companions))

\* audit_operation_model(data, raw), audit_scenario(data, raw, operation_model=...)
audit_operation_model(data) == Evaluate("operation_model", data, <<>>)
audit_scenario(data, operation_model) ==
    Evaluate("scenario", data, [operation_model |-> operation_model])
\* format(AuditResult): the stable output schema
FormatAuditResult(res) ==
    ("verdict" :> (IF res.verdict THEN "compliant" ELSE "non-compliant"))
    @@ ("non-compliant-rules" :> [i \in 1..Len(res.violations) |-> res.violations[i].id])
    @@ ("violations" :> res.violations)
    @@ ("coverage" :> res.coverage)
\* audit_diagram(text, raw, svg_path=None, operation_model=..., scenario=...):
\* a mapping whose "data" is the formatted verdict
audit_diagram(puml_text, operation_model, scenario) ==
    ("data" :> FormatAuditResult(
        Evaluate("plantuml_diagram", puml_text,
                 [operation_model |-> operation_model, scenario |-> scenario])))

(***************************************************************************)
(* API keys (utils_api_key.py).  A raw value is a sequence of lexemes; the  *)
(* raw values of the model hold no command substitution and no macOS       *)
(* security command.                                                       *)
(***************************************************************************)
SK == "sk-"
SP == " "
SQ == "'"
RPAR == ")"
SEMI == ";"
EQ == "="
EXPORT == "export "

\* len() of a text in characters
LexLen(t) ==
    IF t = SK THEN 3
    ELSE IF t \in {SP, SQ, RPAR, SEMI, EQ, DQ, NL, "x"} THEN 1
    ELSE IF t = EXPORT THEN 7
    ELSE IF t = "KEY" THEN 3
    ELSE 12
RECURSIVE CharLen(_)
CharLen(s) == IF s = <<>> THEN 0 ELSE LexLen(Head(s)) + CharLen(Tail(s))

\* s.strip(chars); s.strip() is StripChars(s, Whitespace)
Whitespace == {SP, NL}
StripChars(s, chars) ==
    LET keep == {i \in 1..Len(s) : s[i] \notin chars}
    IN IF keep = {} THEN <<>>
       ELSE LET lo == CHOOSE i \in keep : \A j \in keep : i <= j
                hi == CHOOSE i \in keep : \A j \in keep : i >= j
            IN Slice(s, lo - 1, hi)
StartsWith(s, t) == Len(s) > 0 /\ s[1] = t
EndsWith(s, t) == Len(s) > 0 /\ s[Len(s)] = t

\* lines 131-143: the candidate cut at the first 'sk-', up to the first terminator
KeyTerminators == {NL, DQ, SQ, RPAR, SEMI, SP}
SkCandidate(key) ==
    LET start == Find(key, SK, 0)
        tail == Slice(key, start, Len(key))
        stops == {i \in 0..(Len(tail) - 1) : tail[i + 1] \in KeyTerminators}
        end_idx == IF stops = {} THEN Len(tail) ELSE CHOOSE i \in stops : \A j \in stops : i <= j
    IN StripChars(Slice(tail, 0, end_idx), Whitespace)
\* lines 145-147
DropExport(key) ==
    IF StartsWith(key, EXPORT) THEN StripChars(Tail(key), Whitespace) ELSE key
\* lines 149-154
KeyNameSides == {<<"OPENAI_API_KEY">>, <<"API_KEY">>, <<"KEY">>}
TakeValueSide(key) ==
    IF Contains(key, EQ)
          /\ StripChars(Slice(key, 0, Find(key, EQ, 0)), Whitespace) \in KeyNameSides
    THEN StripChars(Slice(key, Find(key, EQ, 0) + 1, Len(key)), Whitespace)
    ELSE key
\* lines 156-158
DropQuotes(key) ==
    IF (StartsWith(key, DQ) /\ EndsWith(key, DQ)) \/ (StartsWith(key, SQ) /\ EndsWith(key, SQ))
    THEN StripChars(Slice(key, 1, Len(key) - 1), Whitespace)
    ELSE key
\* line 196
FinalCleanup(key) ==
    StripChars(StripChars(StripChars(StripChars(StripChars(key, Whitespace), {SEMI}),
                                     {RPAR}), {DQ}), {SQ})
clean_api_key(raw_key) ==
    LET key == StripChars(raw_key, Whitespace)
    IN IF Contains(key, SK) /\ StartsWith(SkCandidate(key), SK)
             /\ CharLen(SkCandidate(key)) >= 10
       THEN SkCandidate(key)
       ELSE FinalCleanup(DropQuotes(TakeValueSide(DropExport(key))))

VARIABLES
    environ,          \* os.environ: variable name -> raw value
    dotenv_files,     \* the .env files that exist: resolved path -> (name -> value)
    env_locations,    \* the four resolved directories load_env_files() searches
    selected_model,   \* the model name, as lexemes
    loaded_files,     \* the .env files load_dotenv was called on, in order
    router_key,       \* outcome of get_router_api_key()
    model_key         \* outcome of get_api_key_for_model(selected_model)

keyVars == <<environ, dotenv_files, env_locations, selected_model, loaded_files,
             router_key, model_key>>

\* outcomes of a key lookup
NotCalled == [called |-> FALSE, raised |-> "none", key |-> <<>>]
Returned(key) == [called |-> TRUE, raised |-> "none", key |-> key]
Raised(exc) == [called |-> TRUE, raised |-> exc, key |-> <<>>]

\* os.getenv(n1) or os.getenv(n2) or ...: the first value that is set and not empty
FirstTruthy(env, names) ==
    LET set == {i \in 1..Len(names) : names[i] \in DOMAIN env /\ env[names[i]] # <<>>}
    IN IF set = {} THEN <<>>
       ELSE env[names[CHOOSE i \in set : \A j \in set : i <= j]]

\* load_dotenv(env_path): a variable already in the environment is kept
LoadDotenv(env, file) ==
    [n \in (DOMAIN env) \cup (DOMAIN file) |-> IF n \in DOMAIN env THEN env[n] ELSE file[n]]
EnvFile(location) == <<location, ".env">>
PlausibleOpenAIKey(env) ==
    "OPENAI_API_KEY" \in DOMAIN env /\ StartsWith(env["OPENAI_API_KEY"], SK)
\* the loop of load_env_files() from the i-th location on
RECURSIVE LoadEnvFrom(_, _, _, _, _, _)
LoadEnvFrom(i, locations, files, env, seen, loaded) ==
    IF i > Len(locations) THEN [env |-> env, loaded |-> loaded]
    ELSE IF EnvFile(locations[i]) \in seen
    THEN LoadEnvFrom(i + 1, locations, files, env, seen, loaded)
    ELSE IF EnvFile(locations[i]) \notin DOMAIN files
    THEN LoadEnvFrom(i + 1, locations, files, env, seen \cup {EnvFile(locations[i])}, loaded)
    ELSE IF PlausibleOpenAIKey(LoadDotenv(env, files[EnvFile(locations[i])]))
    THEN [env |-> LoadDotenv(env, files[EnvFile(locations[i])]),
          loaded |-> Append(loaded, EnvFile(locations[i]))]
    ELSE LoadEnvFrom(i + 1, locations, files, LoadDotenv(env, files[EnvFile(locations[i])]),
                     seen \cup {EnvFile(locations[i])}, Append(loaded, EnvFile(locations[i])))
load_env_files(locations, files, env, loaded) ==
    LoadEnvFrom(1, locations, files, env, {}, loaded)

RouterNames == <<"ROUTER_API_KEY", "ROUTER_KEY", "ROUTER", "OPENROUTER_API_KEY">>
\* the key found in env, cleaned, or ValueError
KeyOrValueError(key) == IF key = <<>> THEN Raised("ValueError") ELSE Returned(clean_api_key(key))
get_router_api_key(env) == KeyOrValueError(FirstTruthy(env, RouterNames))

\* (model_name or "").lower(), on lexemes
Lower(t) == IF t = "GPT-" THEN "gpt-" ELSE IF t = "Gemini" THEN "gemini" ELSE t
get_provider_for_model(model_name) ==
    LET name == [i \in 1..Len(model_name) |-> Lower(model_name[i])]
    IN IF StartsWith(name, "gpt-") THEN "openai"
       ELSE IF Contains(name, "gemini") THEN "gemini"
       ELSE "router"
ProviderNames(provider) ==
    IF provider = "openai" THEN <<"OPENAI_API_KEY", "OPENAI_KEY", "API_KEY">>
    ELSE IF provider = "gemini" THEN <<"GOOGLE_GEMINI_KEY", "GEMINI_API_KEY", "GEMINI_KEY">>
    ELSE <<"ROUTER_API_KEY", "ROUTER_KEY", "ROUTER">>
get_api_key_for_model(model_name, env) ==
    KeyOrValueError(FirstTruthy(env, ProviderNames(get_provider_for_model(model_name))))

(***************************************************************************)
(* State of one run of main()                                              *)
(***************************************************************************)
VARIABLES
    output_text,       \* openai_client.get_output_text(response)
    pc,                \* position of main()
    parsed_artifacts,  \* result of _parse_single_call_response
    gen_files,         \* generator files written under output_dir: path -> text
    audit_log,         \* per stage: the arguments and the result of the auditor call
    audit_docs,        \* auditor output-data.json written: stage -> document
    audit_error,       \* the exception caught by the audit step's handler
    exit_status,       \* <<>> while running, then <<code>> of the exit
    summary            \* the overall summary: "none", "printed" or "persisted"

mainVars == <<output_text, pc, parsed_artifacts, gen_files, audit_log, audit_docs,
              audit_error, exit_status, summary>>

\* the loop of load_env_files(), one iteration at a time
VARIABLES
    load_pos,          \* index of the location the loop visits next (0: not in the loop)
    load_seen          \* seen: the resolved .env paths already visited

loadVars == <<load_pos, load_seen>>

\* main() before the response, and the launcher scripts/run_default.py
VARIABLES
    launcher,          \* "none" (agent run directly), "checking", "exited" or "started"
    non_interactive,   \* args.non_interactive
    arg_case,          \* args.case ("" when not given)
    typed,             \* what the user will type at the "NetLogo Model > " prompt
    entered,           \* what input() has returned so far
    available_cases,   \* fileio.get_netlogo_cases()
    selected_case,     \* selected_case ("" while none)
    output_dir,        \* the run's output directory: "" until created
    task_file,         \* input-task/single-agent-task: [exists, readable, text]
    task_instructions, \* task_instructions (Null for None)
    system_prompt,     \* the composite prompt
    run_log,           \* the records logged by the file writes of the run
    requests           \* the api_config of every request sent to the model

runVars == <<launcher, non_interactive, arg_case, typed, entered, available_cases,
             selected_case, output_dir, task_file, task_instructions, system_prompt,
             run_log, requests>>

\* save_extracted_artifacts() called repeatedly on one output directory
VARIABLES
    save_dir,          \* the files of the directory: name -> content
    save_dir0,         \* the files the directory held before the first call
    save_calls         \* the arguments of the calls made so far

saveVars == <<save_dir, save_dir0, save_calls>>

restVars == <<loadVars, runVars, saveVars>>

\* the parts of the state a specification does not follow
LoadIdle == load_pos = 0 /\ load_seen = {}
SaveIdle == save_dir = <<>> /\ save_dir0 = <<>> /\ save_calls = <<>>
RunIdle ==
    /\ launcher = "none"
    /\ non_interactive = TRUE
    /\ arg_case = ""
    /\ typed = <<>>
    /\ entered = <<>>
    /\ available_cases = <<>>
    /\ selected_case = ""
    /\ output_dir = ""
    /\ task_file = [exists |-> FALSE, readable |-> FALSE, text |-> <<>>]
    /\ task_instructions = Null
    /\ system_prompt = <<>>
    /\ run_log = <<>>
    /\ requests = <<>>
KeyIdle ==
    /\ environ = <<>>
    /\ dotenv_files = <<>>
    /\ env_locations = <<>>
    /\ selected_model = <<>>
    /\ loaded_files = <<>>
    /\ router_key = NotCalled
    /\ model_key = NotCalled
\* main() stands at position p and has produced nothing yet
MainAt(p) ==
    /\ pc = p
    /\ output_text = [kind |-> "none", toks |-> <<>>]
    /\ parsed_artifacts = NoArtifacts
    /\ gen_files = <<>>
    /\ audit_log = <<>>
    /\ audit_docs = <<>>
    /\ audit_error = "none"
    /\ exit_status = <<>>
    /\ summary = "none"

(***************************************************************************)
(* The responses the model may give                                        *)
(***************************************************************************)
Absent == [t |-> "absent", s |-> <<>>, m |-> <<>>]
WithData(d) == Obj(("data" :> d) @@ ("errors" :> EmptyList))
Elements(e) == Obj(("c" :> Str(e)))
NotAStage == {Absent, Str(<<PROSE>>), Obj(("errors" :> EmptyList))}
OperationModelInputs ==
    NotAStage \cup {WithData(d) : d \in {EmptyObj, Str(<<"garbage">>), Elements(<<"ok">>),
                                         Elements(<<"v2">>), Elements(<<"v2", "v1">>)}}
ScenarioInputs ==
    NotAStage \cup {WithData(d) : d \in {EmptyObj, Str(<<"garbage">>), Elements(<<"ok">>),
                                         Elements(<<"v2">>), Elements(<<"v3", "v1">>),
                                         Elements(<<"v1", "v3">>)}}
DiagramInputs ==
    NotAStage \cup {WithData(d) : d \in {Str(<<PROSE>>), EmptyObj,
                        Obj(("plantuml-diagram" :> Null)),
                        Obj(("plantuml-diagram" :> Str(<<SU, "ok", EU>>))),
                        Obj(("plantuml-diagram" :> Str(<<SU, "v3", "v1", EU>>))),
                        Obj(("plantuml-diagram" :> Str(<<F3, SU, "ok", EU>>)))}}

TopObject(om, sc, pd) ==
    LET val == [operation_model |-> om, scenario |-> sc, plantuml_diagram |-> pd]
    IN Obj([k \in {j \in StageKeys : val[j] # Absent} |-> val[k]])
Payloads ==
    {JsonDumps(TopObject(om, sc, pd)) :
        om \in OperationModelInputs, sc \in ScenarioInputs, pd \in DiagramInputs}

Pads == {[i \in 1..n |-> PROSE] : n \in 0..MaxPad}
Fences == {<< <<>>, <<>> >>, << <<FJ, NL>>, <<NL, F3>> >>,
           << <<F3, NL>>, <<NL, F3>> >>, << <<FJ, NL>>, <<>> >>}
Wrapped(body) ==
    {pre \o f[1] \o body \o f[2] \o post : pre \in Pads, post \in Pads, f \in Fences}
Truncated(body) == {SubSeq(body, 1, Len(body) - n) : n \in 1..MaxCut}
NoJsonTexts ==
    Pads \cup {<<PROSE, SU, "ok", EU, PROSE>>, <<EU, PROSE, SU>>, <<PROSE, LB, PROSE, RB>>,
               <<LB, PROSE, RB, SU, "v1", EU>>, <<FJ, F3>>}
\* a JSON object without a diagram stage, with a diagram in the prose around it
ObjectAndDiagramTexts ==
    {JsonDumps(TopObject(WithData(Elements(<<"ok">>)), Absent, Absent)) \o <<PROSE, SU, "v1", EU>>,
     <<SU, "v1", EU, PROSE>>
        \o JsonDumps(TopObject(Absent, WithData(Elements(<<"ok">>)), WithData(EmptyObj)))}
ResponseTexts ==
    UNION {Wrapped(b) \cup Truncated(b) : b \in Payloads} \cup NoJsonTexts
    \cup ObjectAndDiagramTexts
OutputTexts ==
    {[kind |-> "str", toks |-> t] : t \in ResponseTexts}
    \cup {[kind |-> "none", toks |-> <<>>], [kind |-> "other", toks |-> <<>>]}

(***************************************************************************)
(* main(): from the response to the overall summary                        *)
(***************************************************************************)
Stage1Gen == "1_lucim_operation_model/iter-1/1-generator/output-data.json"
Stage2Gen == "2_lucim_scenario/iter-1/1-generator/output-data.json"
Stage3Gen == "3_lucim_plantuml_diagram/iter-1/1-generator/output-data.json"
Stage3Puml == "3_lucim_plantuml_diagram/iter-1/1-generator/diagram.puml"

\* write_file_content: a content that is no str leaves the opened file empty
\* (the TypeError is logged, not raised)
WriteFileContent(files, path, content) ==
    (path :> (IF IsStr(content) THEN content.s ELSE <<>>)) @@ files
\* str(v)
StrOf(v) == IF IsStr(v) THEN v ELSE Str(JsonDumps(v))
\* the text saved for a JSON stage
StageText(data) == IF IsDict(data) THEN Str(JsonDumps(data)) ELSE StrOf(data)

Init ==
    /\ output_text \in OutputTexts
    /\ pc = "response"
    /\ parsed_artifacts = NoArtifacts
    /\ gen_files = <<>>
    /\ audit_log = <<>>
    /\ audit_docs = <<>>
    /\ audit_error = "none"
    /\ exit_status = <<>>
    /\ summary = "none"
    \* what main() did before the response is followed in SpecRun
    /\ KeyIdle
    /\ LoadIdle
    /\ RunIdle
    /\ SaveIdle

\* lines 477-581: save the raw response and the full text, parse the response
ProcessResponse ==
    /\ pc = "response"
    /\ LET text == IF output_text.kind = "none" \/ (output_text.kind = "str" /\ output_text.toks = <<>>)
                   THEN [kind |-> "str", toks |-> <<>>] ELSE output_text
           r == ParseSingleCallResponse(text)
       IN IF r.raised = "none"
          THEN /\ parsed_artifacts' = r.artifacts
               /\ pc' = "save"
               /\ UNCHANGED exit_status
          ELSE /\ pc' = "exit"
               /\ exit_status' = <<1>>
               /\ UNCHANGED parsed_artifacts
    /\ UNCHANGED <<keyVars, restVars, output_text, gen_files, audit_log, audit_docs, audit_error, summary>>

\* lines 583-625: save the generator output of the three stages
SaveStageDictOnly(files, k, path) ==
    IF Truthy(parsed_artifacts[k]) /\ IsDict(Get(parsed_artifacts[k], "data"))
       /\ Truthy(Get(parsed_artifacts[k], "data"))
    THEN WriteFileContent(files, path, StageText(Get(parsed_artifacts[k], "data")))
    ELSE files
SaveStage(files, k, path) ==
    IF Truthy(parsed_artifacts[k]) /\ Truthy(Get(parsed_artifacts[k], "data"))
    THEN WriteFileContent(files, path, StageText(Get(parsed_artifacts[k], "data")))
    ELSE files
SaveDiagram(files) ==
    LET puml == parsed_artifacts["plantuml_diagram"]
        puml_data == IF HasKey(puml, "data") THEN Get(puml, "data") ELSE EmptyObj
    IN IF Truthy(puml) /\ IsDict(puml_data) /\ HasKey(puml_data, "plantuml-diagram")
       THEN WriteFileContent(
                WriteFileContent(files, Stage3Puml, Get(puml_data, "plantuml-diagram")),
                Stage3Gen, Get(puml_data, "plantuml-diagram"))
       ELSE files
SaveStages ==
    /\ pc = "save"
    /\ gen_files' = SaveDiagram(SaveStage(SaveStage(gen_files, "operation_model", Stage1Gen),
                                          "scenario", Stage2Gen))
    /\ pc' = "audit_import"
    /\ UNCHANGED <<keyVars, restVars, output_text, parsed_artifacts, audit_log, audit_docs, audit_error,
                   exit_status, summary>>

\* lines 705-707: the handler of the audit step logs the error and continues
AuditHandlerExits == [pc |-> "exit", exit_status |-> <<1>>]
AuditHandler == [pc |-> "summary", exit_status |-> <<>>]
AuditRaises(exc) ==
    /\ audit_error' = exc
    /\ pc' = AuditHandler.pc
    /\ exit_status' = AuditHandler.exit_status
    /\ UNCHANGED <<keyVars, restVars, output_text, parsed_artifacts, gen_files, audit_log, audit_docs, summary>>

\* lines 631-633: import the three auditors
ImportAuditors ==
    /\ pc = "audit_import"
    /\ \/ /\ pc' = "audit_om"
          /\ UNCHANGED <<keyVars, restVars, output_text, parsed_artifacts, gen_files, audit_log, audit_docs,
                         audit_error, exit_status, summary>>
       \/ AuditRaises("ImportError")

\* lines 647-651, 668-672: the document main() formats from an auditor's result
VerdictTextInverted(verdict) == IF verdict THEN "non-compliant" ELSE "compliant"
VerdictText(verdict) == IF verdict THEN "compliant" ELSE "non-compliant"
NonCompliantRulesErrorsOnly(violations) ==
    LET IsError(v) == v.severity = "error"
        errors == SelectSeq(violations, IsError)
    IN [i \in 1..Len(errors) |-> errors[i].id]
NonCompliantRules(violations) == [i \in 1..Len(violations) |-> violations[i].id]
AuditDocument(audit_result) ==
    ("verdict" :> VerdictText(audit_result.verdict))
    @@ ("non-compliant-rules" :> NonCompliantRules(audit_result.violations))
    @@ ("violations" :> audit_result.violations)

\* parsed_artifacts[k].get("data") if parsed_artifacts[k] else None
CompanionDataOrEmptyDict(k) ==
    IF Truthy(parsed_artifacts[k]) THEN Get(parsed_artifacts[k], "data") ELSE EmptyObj
CompanionData(k) ==
    IF Truthy(parsed_artifacts[k]) THEN Get(parsed_artifacts[k], "data") ELSE Null

\* lines 699-701: the diagram auditor's "data" is written as it is
DiagramDocument(audit_result) ==
    IF "data" \in DOMAIN audit_result THEN audit_result["data"] ELSE <<>>
DocumentFor(k, audit_result) ==
    IF k = "plantuml_diagram" THEN DiagramDocument(audit_result)
    ELSE AuditDocument(audit_result)

AuditReturns(k, op_model, scenario, audit_result, next) ==
    /\ audit_log' = (k :> [operation_model |-> op_model, scenario |-> scenario,
                           result |-> audit_result]) @@ audit_log
    /\ audit_docs' = (k :> DocumentFor(k, audit_result)) @@ audit_docs
    /\ pc' = next
    /\ UNCHANGED <<keyVars, restVars, output_text, parsed_artifacts, gen_files, audit_error, exit_status, summary>>
AuditSkipped(next) ==
    /\ pc' = next
    /\ UNCHANGED <<keyVars, restVars, output_text, parsed_artifacts, gen_files, audit_log, audit_docs,
                   audit_error, exit_status, summary>>

\* lines 635-653
AuditOperationModel ==
    /\ pc = "audit_om"
    /\ LET op_model_data == Get(parsed_artifacts["operation_model"], "data")
       IN IF Truthy(parsed_artifacts["operation_model"])
             /\ Truthy(op_model_data) /\ IsDict(op_model_data)
          THEN \/ AuditReturns("operation_model", Absent, Absent,
                               audit_operation_model(op_model_data), "audit_sc")
               \/ AuditRaises("audit_operation_model")
          ELSE AuditSkipped("audit_sc")

\* lines 655-674
AuditScenario ==
    /\ pc = "audit_sc"
    /\ LET scenario_data == Get(parsed_artifacts["scenario"], "data")
           op_model_for_audit == CompanionData("operation_model")
       IN IF Truthy(parsed_artifacts["scenario"]) /\ Truthy(scenario_data)
          THEN \/ AuditReturns("scenario", op_model_for_audit, Absent,
                               audit_scenario(scenario_data, op_model_for_audit),
                               "audit_pd")
               \/ AuditRaises("audit_scenario")
          ELSE AuditSkipped("audit_pd")

\* lines 676-703
AuditDiagram ==
    /\ pc = "audit_pd"
    /\ LET puml == parsed_artifacts["plantuml_diagram"]
           puml_data == IF HasKey(puml, "data") THEN Get(puml, "data") ELSE EmptyObj
           op_model_for_audit == CompanionData("operation_model")
           scenario_for_audit == CompanionData("scenario")
       IN IF Truthy(puml) /\ IsDict(puml_data) /\ HasKey(puml_data, "plantuml-diagram")
          THEN \/ AuditReturns("plantuml_diagram", op_model_for_audit, scenario_for_audit,
                               audit_diagram(Get(puml_data, "plantuml-diagram"),
                                             op_model_for_audit, scenario_for_audit),
                               "summary")
               \/ AuditRaises("audit_diagram")
          ELSE AuditSkipped("summary")

\* lines 713-747: build and print the overall summary, try to persist it
OverallSummary ==
    /\ pc = "summary"
    /\ \E persisted \in BOOLEAN :
          summary' = IF persisted THEN "persisted" ELSE "printed"
    /\ pc' = "done"
    /\ exit_status' = <<0>>
    /\ UNCHANGED <<keyVars, restVars, output_text, parsed_artifacts, gen_files, audit_log, audit_docs, audit_error>>

Next ==
    \/ ProcessResponse
    \/ SaveStages
    \/ ImportAuditors
    \/ AuditOperationModel
    \/ AuditScenario
    \/ AuditDiagram
    \/ OverallSummary

vars == <<mainVars, keyVars, restVars>>

Spec == Init /\ [][Next]_vars

(***************************************************************************)
(* The API key check at the start of main(), and get_router_api_key()      *)
(***************************************************************************)
RouterValues ==
    [ROUTER_API_KEY |-> <<SK, "or-v1-aaaaaa">>,
     ROUTER_KEY |-> <<DQ, SK, "or-v1-bbbbbb", DQ>>,
     ROUTER |-> <<EXPORT, "KEY", EQ, "plainkey-ccc">>,
     OPENROUTER_API_KEY |-> <<SP, SK, "or-v1-dddddd", SEMI>>]
OpenAIValue == <<SK, "proj-aaaaaaa">>
\* the environment of the process: any of the router variables set, ROUTER_API_KEY
\* possibly set to the empty string, OPENAI_API_KEY set or not
ProcessEnvs ==
    {[n \in S \cup E \cup O |->
         IF n \in E THEN <<>> ELSE IF n \in O THEN OpenAIValue ELSE RouterValues[n]] :
       S \in SUBSET (DOMAIN RouterValues),
       E \in {{}, {"ROUTER_API_KEY"}},
       O \in {{}, {"OPENAI_API_KEY"}}}
\* layouts of cwd, the code directory, its parent and the project root
LocationLayouts ==
    {<<"/work", "/p/code", "/p", "/">>,
     <<"/p/code", "/p/code", "/p", "/">>,
     <<"/", "/p/code", "/p", "/">>}
FileRouter == [ROUTER_KEY |-> <<SQ, "filekey-eeee", SQ>>]
FileOpenAI == [OPENAI_API_KEY |-> <<SK, "proj-fffffff">>,
               OPENROUTER_API_KEY |-> <<SK, "or-v1-gggggg">>]
FileGemini == [GOOGLE_GEMINI_KEY |-> <<"AIza-hhhhhhh">>, ROUTER |-> <<"plainkey-iii", RPAR>>]
DotenvFileSets ==
    {[path \in {EnvFile(d) : d \in D1 \cup D2 \cup D3} |->
         IF path[1] \in D1 THEN FileRouter
         ELSE IF path[1] \in D2 THEN FileOpenAI ELSE FileGemini] :
       D1 \in SUBSET {"/work", "/p/code"},
       D2 \in SUBSET {"/p/code", "/p"},
       D3 \in SUBSET {"/"}}
ModelNames == {<<"gpt-", "5-mini">>, <<"GPT-", "5">>, <<"models/", "Gemini", "-pro">>,
               <<"mistral-large">>, <<>>}

InitKey ==
    /\ environ \in ProcessEnvs
    /\ dotenv_files \in DotenvFileSets
    /\ env_locations \in LocationLayouts
    /\ selected_model \in ModelNames
    /\ loaded_files = <<>>
    /\ router_key = NotCalled
    /\ model_key = NotCalled
    /\ MainAt("api_key")
    /\ LoadIdle
    /\ RunIdle
    /\ SaveIdle

\* utils_api_key.py lines 280-288, called on the environment of the process
GetRouterApiKey ==
    /\ pc \in {"api_key", "create_dir"}
    /\ ~router_key.called
    /\ environ' = load_env_files(env_locations, dotenv_files, environ, loaded_files).env
    /\ loaded_files' = load_env_files(env_locations, dotenv_files, environ, loaded_files).loaded
    /\ router_key' = get_router_api_key(environ')
    /\ UNCHANGED <<mainVars, restVars, dotenv_files, env_locations, selected_model, model_key>>

\* agent_netlogo_to_lucim.py lines 158-167: the key of the selected model is looked
\* up; a missing key ends the run with status 1
CheckApiKey ==
    /\ pc = "api_key"
    /\ environ' = load_env_files(env_locations, dotenv_files, environ, loaded_files).env
    /\ loaded_files' = load_env_files(env_locations, dotenv_files, environ, loaded_files).loaded
    /\ model_key' = get_api_key_for_model(selected_model, environ')
    /\ IF model_key'.raised = "none"
       THEN pc' = "create_dir" /\ UNCHANGED exit_status
       ELSE pc' = "exit" /\ exit_status' = <<1>>
    /\ UNCHANGED <<output_text, parsed_artifacts, gen_files, audit_log, audit_docs,
                   audit_error, summary>>
    /\ UNCHANGED <<restVars, dotenv_files, env_locations, selected_model, router_key>>

NextKey ==
    \/ GetRouterApiKey
    \/ CheckApiKey

SpecKey == InitKey /\ [][NextKey]_vars

(***************************************************************************)
(* load_env_files(), followed one loop iteration at a time                 *)
(***************************************************************************)
InitEnv ==
    /\ environ \in ProcessEnvs
    /\ dotenv_files \in DotenvFileSets
    /\ env_locations \in LocationLayouts
    /\ selected_model = <<>>
    /\ loaded_files = <<>>
    /\ router_key = NotCalled
    /\ model_key = NotCalled
    /\ load_pos = 1
    /\ load_seen = {}
    /\ MainAt("load_env")
    /\ RunIdle
    /\ SaveIdle

\* utils_api_key.py lines 58-60: the path was visited before
LoadEnvSkipSeen ==
    /\ load_pos \in 1..Len(env_locations)
    /\ EnvFile(env_locations[load_pos]) \in load_seen
    /\ load_pos' = load_pos + 1
    /\ UNCHANGED <<mainVars, keyVars, load_seen, runVars, saveVars>>

\* lines 58-63: a new path at which no .env file exists
LoadEnvMissing ==
    /\ load_pos \in 1..Len(env_locations)
    /\ EnvFile(env_locations[load_pos]) \notin load_seen
    /\ EnvFile(env_locations[load_pos]) \notin DOMAIN dotenv_files
    /\ load_seen' = load_seen \cup {EnvFile(env_locations[load_pos])}
    /\ load_pos' = load_pos + 1
    /\ UNCHANGED <<mainVars, keyVars, runVars, saveVars>>

\* lines 58-71: a new path whose .env file exists is loaded; the loop ends when
\* OPENAI_API_KEY then starts with 'sk-'
LoadEnvLoad ==
    /\ load_pos \in 1..Len(env_locations)
    /\ EnvFile(env_locations[load_pos]) \notin load_seen
    /\ EnvFile(env_locations[load_pos]) \in DOMAIN dotenv_files
    /\ load_seen' = load_seen \cup {EnvFile(env_locations[load_pos])}
    /\ environ' = LoadDotenv(environ, dotenv_files[EnvFile(env_locations[load_pos])])
    /\ loaded_files' = Append(loaded_files, EnvFile(env_locations[load_pos]))
    /\ load_pos' = IF PlausibleOpenAIKey(environ') THEN Len(env_locations) + 1
                   ELSE load_pos + 1
    /\ UNCHANGED <<mainVars, dotenv_files, env_locations, selected_model, router_key,
                   model_key, runVars, saveVars>>

NextEnv ==
    \/ LoadEnvSkipSeen
    \/ LoadEnvMissing
    \/ LoadEnvLoad

SpecEnv == InitEnv /\ [][NextEnv]_vars

(***************************************************************************)
(* One whole run: the launcher, main() up to the request, then the         *)
(* actions of Spec on the response                                         *)
(***************************************************************************)
TaskFiles ==
    {[exists |-> FALSE, readable |-> FALSE, text |-> <<>>],
     [exists |-> TRUE, readable |-> FALSE, text |-> <<"task">>],
     [exists |-> TRUE, readable |-> TRUE, text |-> <<>>],
     [exists |-> TRUE, readable |-> TRUE, text |-> <<SP, NL>>],
     [exists |-> TRUE, readable |-> TRUE, text |-> <<"task", NL>>]}
CaseLists == {<<>>, <<"3d-solids", "ants">>}
TypedInputs == {<<"q">>, <<"2">>, <<"x", " Q ">>, <<"9", "1">>}
RunEnvs == {<<>>, [n \in {"OPENAI_API_KEY"} |-> OpenAIValue],
            [n \in {"ROUTER_API_KEY"} |-> RouterValues[n]]}
RunModels == {<<"gpt-", "5-mini">>, <<"mistral-large">>}
RunOutputTexts ==
    {[kind |-> "none", toks |-> <<>>],
     [kind |-> "str", toks |-> <<PROSE>>],
     [kind |-> "str", toks |->
        <<FJ, NL>> \o
        JsonDumps(TopObject(WithData(Elements(<<"v2", "v1">>)),
                            WithData(Elements(<<"v3", "v1">>)),
                            WithData(Obj(("plantuml-diagram" :> Str(<<SU, "ok", EU>>))))))
        \o <<NL, F3>>]}

InitRun ==
    /\ launcher \in {"none", "checking"}
    /\ non_interactive \in (IF launcher = "checking" THEN {TRUE} ELSE BOOLEAN)
    /\ arg_case \in (IF launcher = "checking" THEN {""} ELSE {"", "ants"})
    /\ typed \in (IF non_interactive THEN {<<>>} ELSE TypedInputs)
    /\ entered = <<>>
    /\ available_cases \in CaseLists
    /\ selected_case = ""
    /\ output_dir = ""
    /\ task_file \in TaskFiles
    /\ task_instructions = Null
    /\ system_prompt = <<>>
    /\ run_log = <<>>
    /\ requests = <<>>
    /\ environ \in RunEnvs
    /\ dotenv_files = <<>>
    /\ env_locations = <<"/p", "/p/code", "/p", "/">>
    /\ selected_model \in RunModels
    /\ loaded_files = <<>>
    /\ router_key = NotCalled
    /\ model_key = NotCalled
    /\ MainAt(IF launcher = "checking" THEN "launcher" ELSE "args")
    /\ LoadIdle
    /\ SaveIdle

\* sys.exit(status)
Exit(status) == pc' = "exit" /\ exit_status' = <<status>>

\* scripts/run_default.py lines 24-53: the launcher checks the key and the task
\* file, then starts the agent with --non-interactive
Launcher ==
    /\ pc = "launcher"
    /\ IF "OPENAI_API_KEY" \notin DOMAIN environ
       THEN Exit(1) /\ launcher' = "exited"
       ELSE IF ~task_file.exists
       THEN Exit(2) /\ launcher' = "exited"
       ELSE pc' = "args" /\ launcher' = "started" /\ UNCHANGED exit_status
    /\ UNCHANGED <<output_text, parsed_artifacts, gen_files, audit_log, audit_docs,
                   audit_error, summary, keyVars, loadVars, saveVars>>
    /\ UNCHANGED <<non_interactive, arg_case, typed, entered, available_cases,
                   selected_case, output_dir, task_file, task_instructions,
                   system_prompt, run_log, requests>>

\* agent_netlogo_to_lucim.py lines 130-138: no case selected
DefaultCase(case) ==
    IF case # "" THEN case
    ELSE IF available_cases # <<>> THEN available_cases[1] ELSE ""
\* main() goes on with the selected case, or exits when there is none
CaseSelected(case) ==
    /\ selected_case' = DefaultCase(case)
    /\ IF DefaultCase(case) = "" THEN Exit(1) ELSE pc' = "api_key" /\ UNCHANGED exit_status

\* lines 103-138: the selections from the arguments; the prompt is needed in
\* interactive mode when no case was given and cases exist
StartMain ==
    /\ pc = "args"
    /\ IF non_interactive
       THEN CaseSelected(IF arg_case # "" THEN arg_case
                         ELSE IF available_cases # <<>> THEN available_cases[1]
                         ELSE "3d-solids")
       ELSE IF arg_case # "" THEN CaseSelected(arg_case)
       ELSE IF available_cases = <<>> THEN CaseSelected("")
       ELSE pc' = "prompt" /\ UNCHANGED <<selected_case, exit_status>>
    /\ UNCHANGED <<output_text, parsed_artifacts, gen_files, audit_log, audit_docs,
                   audit_error, summary, keyVars, loadVars, saveVars>>
    /\ UNCHANGED <<launcher, non_interactive, arg_case, typed, entered, available_cases,
                   output_dir, task_file, task_instructions, system_prompt, run_log,
                   requests>>

\* input(...).strip() and .lower(), on the inputs of the model
StripInput(t) == IF t = " Q " THEN "Q" ELSE t
LowerInput(t) == IF t = "Q" THEN "q" ELSE t
\* int(user_input): the number typed, 0 for a ValueError
NumberTyped(t) == IF t = "1" THEN 1 ELSE IF t = "2" THEN 2 ELSE IF t = "9" THEN 9 ELSE 0

\* utils_ui.py lines 25-39: one turn of the prompt loop of select_netlogo_case,
\* and lines 116-138 of main() when the function returns
PromptCase ==
    /\ pc = "prompt"
    /\ typed # <<>>
    /\ typed' = Tail(typed)
    /\ entered' = Append(entered, StripInput(Head(typed)))
    /\ IF LowerInput(StripInput(Head(typed))) = "q"
       THEN CaseSelected("")
       ELSE IF NumberTyped(StripInput(Head(typed))) \in 1..Len(available_cases)
       THEN CaseSelected(available_cases[NumberTyped(StripInput(Head(typed)))])
       ELSE UNCHANGED <<pc, selected_case, exit_status>>
    /\ UNCHANGED <<output_text, parsed_artifacts, gen_files, audit_log, audit_docs,
                   audit_error, summary, keyVars, loadVars, saveVars>>
    /\ UNCHANGED <<launcher, non_interactive, arg_case, available_cases, output_dir,
                   task_file, task_instructions, system_prompt, run_log, requests>>

\* lines 169-174
CreateOutputDir ==
    /\ pc = "create_dir"
    /\ output_dir' = "created"
    /\ pc' = "load_inputs"
    /\ UNCHANGED <<output_text, parsed_artifacts, gen_files, audit_log, audit_docs,
                   audit_error, exit_status, summary, keyVars, loadVars, saveVars>>
    /\ UNCHANGED <<launcher, non_interactive, arg_case, typed, entered, available_cases,
                   selected_case, task_file, task_instructions, system_prompt, run_log,
                   requests>>

\* lines 202-212: the task file is read when it exists; a read error is logged
LoadTask(file) ==
    IF file.exists /\ file.readable THEN Str(file.text) ELSE Null
\* lines 176-216: the input files are loaded, or loading raises and the run exits
LoadInputs ==
    /\ pc = "load_inputs"
    /\ \/ /\ task_instructions' = LoadTask(task_file)
          /\ pc' = "task_check"
          /\ UNCHANGED exit_status
       \/ /\ Exit(1)
          /\ UNCHANGED task_instructions
    /\ UNCHANGED <<output_text, parsed_artifacts, gen_files, audit_log, audit_docs,
                   audit_error, summary, keyVars, loadVars, saveVars>>
    /\ UNCHANGED <<launcher, non_interactive, arg_case, typed, entered, available_cases,
                   selected_case, output_dir, task_file, system_prompt, run_log,
                   requests>>

\* line 223: not task_instructions or not str(task_instructions).strip()
MissingTaskOnlyNone(task) == task = Null
MissingTask(task) == task = Null \/ StripChars(task.s, Whitespace) = <<>>

\* lines 300-393: the composite prompt, built for the selected case
BuildPrompt(case) == <<"persona", case, "task", NL>>
\* lines 393-396: the step that follows the building of the prompt
AfterPromptIsRequest == "request"
AfterPrompt == "write_instructions"

\* lines 218-393: the task check, then the prompt
CheckTask ==
    /\ pc = "task_check"
    /\ IF MissingTask(task_instructions)
       THEN Exit(2) /\ UNCHANGED system_prompt
       ELSE /\ system_prompt' = BuildPrompt(selected_case)
            /\ pc' = AfterPrompt
            /\ UNCHANGED exit_status
    /\ UNCHANGED <<output_text, parsed_artifacts, gen_files, audit_log, audit_docs,
                   audit_error, summary, keyVars, loadVars, saveVars>>
    /\ UNCHANGED <<launcher, non_interactive, arg_case, typed, entered, available_cases,
                   selected_case, output_dir, task_file, task_instructions, run_log,
                   requests>>

InstructionsFile == "input-instructions.md"
\* utils_fileio.py lines 53-60: write_file_content writes the file, or logs the
\* error of a failed write; it raises nothing in either case
write_file_content(files, log, path, content, ok) ==
    IF ok
    THEN [files |-> WriteFileContent(files, path, Str(content)),
          log |-> Append(log, [level |-> "info", event |-> "wrote", path |-> path,
                               content |-> content]),
          raised |-> "none"]
    ELSE [files |-> files,
          log |-> Append(log, [level |-> "error", event |-> "write_failed", path |-> path,
                               content |-> content]),
          raised |-> "none"]
\* utils_fileio.py lines 86-101
write_input_instructions_before_api(files, log, prompt, ok) ==
    LET w == write_file_content(files, log, InstructionsFile, prompt, ok)
    IN IF w.raised = "none"
       THEN [files |-> w.files,
             log |-> Append(w.log, [level |-> "info", event |-> "wrote_prompt",
                                    path |-> InstructionsFile, content |-> prompt]),
             raised |-> "none"]
       ELSE [files |-> w.files,
             log |-> Append(w.log, [level |-> "error", event |-> "prompt_failed",
                                    path |-> InstructionsFile, content |-> prompt]),
             raised |-> w.raised]

\* line 396: an exception of the call is not caught in main()
WriteInputInstructions ==
    /\ pc = "write_instructions"
    /\ \E ok \in BOOLEAN :
         LET w == write_input_instructions_before_api(gen_files, run_log, system_prompt, ok)
         IN /\ gen_files' = w.files
            /\ run_log' = w.log
            /\ IF w.raised = "none"
               THEN pc' = "request" /\ UNCHANGED exit_status
               ELSE Exit(1)
    /\ UNCHANGED <<output_text, parsed_artifacts, audit_log, audit_docs,
                   audit_error, summary, keyVars, loadVars, saveVars>>
    /\ UNCHANGED <<launcher, non_interactive, arg_case, typed, entered, available_cases,
                   selected_case, output_dir, task_file, task_instructions, system_prompt,
                   requests>>

\* lines 450-454
ApiConfig(model, prompt) == [model |-> model, instructions |-> prompt, input |-> prompt]
\* utils_openai_client.create_and_wait(client, api_config): one request
CreateAndWait(sent, api_config) == Append(sent, api_config)
\* line 457: the call of main() to the model
CallModelTwice(sent, api_config) == CreateAndWait(CreateAndWait(sent, api_config), api_config)
CallModel(sent, api_config) == CreateAndWait(sent, api_config)

\* lines 398-469 and 482: the request to the model and its outcome
SendRequest ==
    /\ pc = "request"
    /\ IF get_provider_for_model(selected_model) \in {"gemini", "router"}
       THEN Exit(1) /\ UNCHANGED <<requests, output_text>>
       ELSE \/ Exit(1) /\ UNCHANGED <<requests, output_text>>
            \/ /\ requests' = CallModel(requests, ApiConfig(selected_model, system_prompt))
               /\ \/ Exit(1) /\ UNCHANGED output_text
                  \/ /\ output_text' \in RunOutputTexts
                     /\ pc' = "response"
                     /\ UNCHANGED exit_status
    /\ UNCHANGED <<parsed_artifacts, gen_files, audit_log, audit_docs,
                   audit_error, summary, keyVars, loadVars, saveVars>>
    /\ UNCHANGED <<launcher, non_interactive, arg_case, typed, entered, available_cases,
                   selected_case, output_dir, task_file, task_instructions, system_prompt,
                   run_log>>

NextRun ==
    \/ Launcher
    \/ StartMain
    \/ PromptCase
    \/ CheckApiKey
    \/ CreateOutputDir
    \/ LoadInputs
    \/ CheckTask
    \/ WriteInputInstructions
    \/ SendRequest
    \/ Next

SpecRun == InitRun /\ [][NextRun]_vars

(***************************************************************************)
(* Properties of the audit documents and of response parsing               *)
(***************************************************************************)
JsonStages == {"operation_model", "scenario"}
HasErrorViolation(violations) ==
    \E i \in 1..Len(violations) : violations[i].severity = "error"
AuditStepPcs == {"audit_import", "audit_om", "audit_sc", "audit_pd"}
AuditsOver == pc \in {"summary", "done"}

\* C1: in every audit document written, the verdict is "compliant" if and only if
\* no entry of its violations list has severity "error"
C1_VerdictMatchesViolations ==
    \A k \in DOMAIN audit_docs :
        /\ {"verdict", "violations"} \subseteq DOMAIN audit_docs[k]
        /\ (audit_docs[k]["verdict"] = "compliant")
             <=> ~HasErrorViolation(audit_docs[k]["violations"])
\* a document with a warning-only violation list that is compliant, beside one
\* that an error violation makes non-compliant
C1_Witness ==
    /\ \E k \in DOMAIN audit_docs :
          /\ audit_docs[k]["verdict"] = "compliant"
          /\ Len(audit_docs[k]["violations"]) > 0
    /\ \E k \in DOMAIN audit_docs :
          /\ audit_docs[k]["verdict"] = "non-compliant"
          /\ HasErrorViolation(audit_docs[k]["violations"])

\* C2: every audit document written has exactly the four fields verdict,
\* non-compliant-rules, violations and coverage, and its verdict is one of the
\* strings "compliant" and "non-compliant"
C2_ExactlyFourFields ==
    \A k \in DOMAIN audit_docs :
        /\ DOMAIN audit_docs[k] = {"verdict", "non-compliant-rules", "violations", "coverage"}
        /\ audit_docs[k]["verdict"] \in {"compliant", "non-compliant"}

\* the text to be audited for JSON stage k is non-JSON garbage
GarbageArtifact(k) ==
    /\ parsed_artifacts[k] # Null
    /\ IsStr(Get(parsed_artifacts[k], "data"))
    /\ Len(Get(parsed_artifacts[k], "data").s) > 0
    /\ ~JsonLoads(Get(parsed_artifacts[k], "data").s).ok
\* C3: when the text to be audited as a JSON-kind artifact is non-JSON garbage, the
\* run (whose audit step raised nothing) has produced an audit document for it
\* whose verdict is "non-compliant" and whose violations list is the single entry
\* with id R-PARSE-000
C3_ParseFailureContained ==
    \A k \in JsonStages :
        (AuditsOver /\ audit_error = "none" /\ GarbageArtifact(k)) =>
            /\ k \in DOMAIN audit_docs
            /\ audit_docs[k]["verdict"] = "non-compliant"
            /\ Len(audit_docs[k]["violations"]) = 1
            /\ audit_docs[k]["violations"][1].id = ParseRuleId

\* C4: the audit step never makes the run exit with an error status: an exception
\* of an auditor or of its import is handled, the run stays alive through the audit
\* step, goes on to the overall summary and ends with status 0, the summary
\* printed (and persisted when that write succeeds)
C4_AuditNeverFailsRun ==
    /\ exit_status = <<1>> => (audit_error = "none" /\ pc = "exit" /\ DOMAIN audit_log = {})
    /\ audit_error # "none" => AuditsOver
    /\ pc \in AuditStepPcs \cup {"summary"} => (exit_status = <<>> /\ ENABLED Next)
    /\ pc = "done" => (exit_status = <<0>> /\ summary \in {"printed", "persisted"})
\* an auditor raised after artifacts were extracted, and the run still ended
\* with its summary and status 0
C4_Witness ==
    /\ pc = "done"
    /\ audit_error \notin {"none", "ImportError"}
    /\ exit_status = <<0>>
    /\ summary = "persisted"

\* the scenario step of the audit has been passed without an exception before or in it
ScenarioStepPassed ==
    \/ pc = "audit_pd"
    \/ AuditsOver /\ audit_error \in {"none", "audit_diagram"}
DependsOnModel(r) == "operation_model" \in r.needs
ModelDependentRules == LET Dep(r) == DependsOnModel(r) IN SelectSeq(RulesFor("scenario"), Dep)
InSeq(e, seq) == \E i \in 1..Len(seq) : seq[i] = e
ScenarioAuditedWithoutModel ==
    /\ "scenario" \in DOMAIN audit_log
    /\ "scenario" \in DOMAIN audit_docs
    /\ audit_log["scenario"].operation_model = Null
    /\ \A i \in 1..Len(ModelDependentRules) :
          /\ InSeq(ModelDependentRules[i].id, audit_log["scenario"].result.coverage.not_applicable)
          /\ ~InSeq(ModelDependentRules[i].id, audit_docs["scenario"]["non-compliant-rules"])
          /\ \A j \in 1..Len(audit_docs["scenario"]["violations"]) :
                audit_docs["scenario"]["violations"][j].id # ModelDependentRules[i].id
C7_CoverageComplete ==
    \A k \in DOMAIN audit_docs :
        /\ "coverage" \in DOMAIN audit_docs[k]
        /\ audit_docs[k]["coverage"].total_rules_in_dsl =
              Len(audit_docs[k]["coverage"].evaluated)
              + Len(audit_docs[k]["coverage"].not_applicable)

\* position of a rule id in the catalog (0 for the reserved parse rule)
CatalogIndex(id) ==
    IF \E i \in 1..Len(Catalog) : Catalog[i].id = id
    THEN CHOOSE i \in 1..Len(Catalog) : Catalog[i].id = id ELSE 0
\* C8: in every operation-model and scenario audit document, non-compliant-rules
\* has the length of violations and its k-th element is the id of the k-th
\* violation; the ids follow the catalog's order, not the order of the elements
\* of the audited artifact
C8_NonCompliantRulesFollowViolations ==
    \A k \in DOMAIN audit_docs \cap JsonStages :
        /\ Len(audit_docs[k]["non-compliant-rules"]) = Len(audit_docs[k]["violations"])
        /\ \A i \in 1..Len(audit_docs[k]["violations"]) :
              audit_docs[k]["non-compliant-rules"][i] = audit_docs[k]["violations"][i].id
        /\ \A i, j \in 1..Len(audit_docs[k]["non-compliant-rules"]) :
              i < j => CatalogIndex(audit_docs[k]["non-compliant-rules"][i])
                         < CatalogIndex(audit_docs[k]["non-compliant-rules"][j])
\* a document with two violations, one of them a warning, whose elements stand
\* in the artifact in the opposite order
C8_Witness ==
    \E k \in DOMAIN audit_docs \cap JsonStages :
        /\ Len(audit_docs[k]["violations"]) = 2
        /\ audit_docs[k]["violations"][1].location > audit_docs[k]["violations"][2].location
        /\ \E i \in 1..2 : audit_docs[k]["violations"][i].severity = "warning"

C10_RouterFallbacksAgree ==
    (/\ get_provider_for_model(selected_model) = "router"
     /\ router_key.called /\ router_key.raised = "none"
     /\ model_key.called)
    => (model_key.raised = "none" /\ model_key.key = router_key.key)

(***************************************************************************)
(* Properties of fence stripping                                           *)
(***************************************************************************)
AllProse(s) == \A i \in 1..Len(s) : s[i] = PROSE
\* the text between the first and the last fence of a response
FencedBody(toks) == Strip(Slice(toks, Find(toks, F3, 0) + 1, RFind(toks, F3)))
\* toks is prose, a fence, a valid JSON object, a closing fence, prose
IsFencedObject(toks) ==
    /\ Find(toks, F3, 0) >= 0
    /\ RFind(toks, F3) > Find(toks, F3, 0)
    /\ AllProse(Slice(toks, 0, Find(toks, F3, 0)))
    /\ AllProse(Slice(toks, RFind(toks, F3) + 1, Len(toks)))
    /\ StartsWith(FencedBody(toks), LB)
    /\ JsonLoads(FencedBody(toks)).ok
\* C20: a response that is a valid JSON object wrapped in a ```json or bare ```
\* fence, with prose before and after, yields the same three artifacts as the
\* JSON object alone
C20_FencesAndProseTolerated ==
    (output_text.kind = "str" /\ IsFencedObject(output_text.toks)) =>
        ParseSingleCallResponse(output_text).artifacts
          = ParseSingleCallResponse([kind |-> "str", toks |-> FencedBody(output_text.toks)]).artifacts

(***************************************************************************)
(* Properties of load_env_files                                            *)
(***************************************************************************)
\* the first position of a .env path in the list of locations
LocationIndex(path) ==
    CHOOSE i \in 1..Len(env_locations) :
        /\ EnvFile(env_locations[i]) = path
        /\ \A j \in 1..(i - 1) : EnvFile(env_locations[j]) # path
\* the files loaded so far exist, and stand in the order of the locations, each once
LoadedInOrder ==
    /\ \A j \in 1..Len(loaded_files) :
          /\ loaded_files[j] \in DOMAIN dotenv_files
          /\ \E i \in 1..Len(env_locations) : EnvFile(env_locations[i]) = loaded_files[j]
    /\ \A j, k \in 1..Len(loaded_files) :
          j < k => LocationIndex(loaded_files[j]) < LocationIndex(loaded_files[k])
\* the loop has run to its end without a valid key: every existing file was loaded
LoadedAllWhenNoKey ==
    (load_pos > Len(env_locations) /\ ~PlausibleOpenAIKey(environ)) =>
        \A i \in 1..Len(env_locations) :
            EnvFile(env_locations[i]) \in DOMAIN dotenv_files
              => \E j \in 1..Len(loaded_files) : loaded_files[j] = EnvFile(env_locations[i])
\* C11: load_env_files loads the existing .env files in the order current directory,
\* code directory, its parent, its grandparent, each distinct file at most once,
\* and from a state in which OPENAI_API_KEY is set and starts with 'sk-' no
\* further .env file is loaded
C11_OrderedLoadStopsAtKey ==
    /\ [](LoadedInOrder /\ LoadedAllWhenNoKey)
    /\ [][PlausibleOpenAIKey(environ) => loaded_files' = loaded_files]_vars

(***************************************************************************)
(* save_extracted_artifacts, called again and again on one output          *)
(* directory.  A directory is a function from file names to contents; the  *)
(* file system accepts every write.                                        *)
(***************************************************************************)
MaxCalls == 3

NoneArg == [kind |-> "none"]
Text(s) == [kind |-> "str", s |-> s]
RuleDict(m) == [kind |-> "dict", m |-> m]
RuleId(id) == [kind |-> "str", id |-> id]
AuditDict(verdict, rules) == [kind |-> "dict", verdict |-> verdict, rules |-> rules]
EmptyDict == [kind |-> "dict", verdict |-> "", rules |-> <<>>, empty |-> TRUE]

\* Python truth value of an argument: None, "" and {} are false
TruthyArg(a) ==
    CASE a.kind = "none" -> FALSE
      [] a.kind = "str" -> a.s # <<>>
      [] OTHER -> "empty" \notin DOMAIN a

PlantumlArgs == {NoneArg, Text(<<>>), Text(<<"P1">>), Text(<<"P2">>)}
AuditArgs ==
    {NoneArg, EmptyDict,
     AuditDict("compliant", <<>>),
     AuditDict("non-compliant",
               <<RuleDict([k \in {"rule", "line", "msg"} |->
                             IF k = "rule" THEN "R-OM-001" ELSE IF k = "line" THEN "3" ELSE "m"]),
                 RuleDict([k \in {"rule"} |-> "R-SC-002"])>>),
     AuditDict("non-compliant", <<RuleId("R-PD-003")>>)}
OldAudit == AuditDict("non-compliant", <<RuleDict([k \in {"rule"} |-> "R-PD-001"])>>)
InitialDirs ==
    {<<>>,
     [f \in {"diagram.puml"} |-> <<"P0">>],
     [f \in {"diagram.puml", "diagram_initial.puml"} |-> IF f = "diagram.puml" THEN <<"P1">> ELSE <<"P0">>],
     [f \in {"audit_initial.json"} |-> [json |-> OldAudit]]}

\* str.upper() of a verdict
Upper(v) == IF v = "compliant" THEN "COMPLIANT" ELSE IF v = "non-compliant" THEN "NON-COMPLIANT" ELSE v
\* dict.get(k, default) of a rule
RuleGet(rule, k, default) == IF k \in DOMAIN rule.m THEN rule.m[k] ELSE default
\* the decimal text of a position
Decimal(i) == IF i = 1 THEN "1" ELSE IF i = 2 THEN "2" ELSE "n"

\* utils_fileio.py lines 361-369: the lines of the rules from position i on
RECURSIVE RuleLines(_, _)
RuleLines(rules, i) ==
    IF i > Len(rules) THEN <<>>
    ELSE << <<"### ", Decimal(i), ". ", RuleGet(rules[i], "rule", "Unknown rule")>>,
            <<"**Line:** ", RuleGet(rules[i], "line", "?")>>,
            <<"**Issue:** ", RuleGet(rules[i], "msg", "No description")>>,
            <<>> >> \o RuleLines(rules, i + 1)
\* lines 362-364: rule.get raises AttributeError on a rule that is no dict
MarkdownRaises(audit_data) ==
    \E i \in 1..Len(audit_data.rules) : audit_data.rules[i].kind # "dict"
\* lines 347-374: the lines of audit.md
MarkdownLines(audit_data) ==
    << <<"# LUCIM Compliance Audit Report">>, <<>>,
       <<"## Verdict: ", Upper(audit_data.verdict)>>, <<>> >>
    \o (IF audit_data.rules # <<>>
        THEN << <<"## Non-Compliant Rules">>, <<>> >> \o RuleLines(audit_data.rules, 1)
        ELSE << <<"No non-compliant rules found.">>, <<>> >>)

\* write_file_content and write_json on a directory
WriteTo(dir, name, content) == (name :> content) @@ dir
\* json.dump(data, f): the document that json.load reads back as data
JsonDocument(data) == [json |-> data]

\* lines 334-343
SaveDiagramFile(dir, plantuml_text) ==
    IF TruthyArg(plantuml_text) THEN WriteTo(dir, "diagram.puml", plantuml_text.s) ELSE dir
\* lines 345-381: the try block leaves audit.md as it was when it raises
SaveAuditMarkdown(dir, audit_data) ==
    IF TruthyArg(audit_data) /\ ~MarkdownRaises(audit_data)
    THEN WriteTo(dir, "audit.md", MarkdownLines(audit_data))
    ELSE dir
\* line 394
InitialAlwaysWritten(dir) == TRUE
InitialAbsent(dir) == "audit_initial.json" \notin DOMAIN dir
\* lines 383-399
SaveAuditJson(dir, audit_data) ==
    IF TruthyArg(audit_data)
    THEN IF InitialAbsent(WriteTo(dir, "audit_final.json", JsonDocument(audit_data)))
         THEN WriteTo(WriteTo(dir, "audit_final.json", JsonDocument(audit_data)),
                      "audit_initial.json", JsonDocument(audit_data))
         ELSE WriteTo(dir, "audit_final.json", JsonDocument(audit_data))
    ELSE dir
\* line 405
BaselineNeededIfDiagram(dir) == "diagram.puml" \in DOMAIN dir
BaselineNeeded(dir) == "diagram.puml" \in DOMAIN dir /\ "diagram_initial.puml" \notin DOMAIN dir
\* lines 401-410
SaveBaselineDiagram(dir) ==
    IF BaselineNeeded(dir) THEN WriteTo(dir, "diagram_initial.puml", dir["diagram.puml"]) ELSE dir
\* utils_fileio.py lines 324-410
save_extracted_artifacts(dir, plantuml_text, audit_data) ==
    SaveBaselineDiagram(
        SaveAuditJson(
            SaveAuditMarkdown(SaveDiagramFile(dir, plantuml_text), audit_data),
            audit_data))

InitSave ==
    /\ save_dir0 \in InitialDirs
    /\ save_dir = save_dir0
    /\ save_calls = <<>>
    /\ MainAt("save_artifacts")
    /\ KeyIdle
    /\ LoadIdle
    /\ RunIdle

SaveExtractedArtifacts ==
    /\ pc = "save_artifacts"
    /\ Len(save_calls) < MaxCalls
    /\ \E plantuml_text \in PlantumlArgs, audit_data \in AuditArgs :
         /\ save_dir' = save_extracted_artifacts(save_dir, plantuml_text, audit_data)
         /\ save_calls' = Append(save_calls, [plantuml_text |-> plantuml_text,
                                              audit_data |-> audit_data])
    /\ UNCHANGED <<mainVars, keyVars, loadVars, runVars, save_dir0>>

NextSave == SaveExtractedArtifacts

SpecSave == InitSave /\ [][NextSave]_vars

(***************************************************************************)
(* Properties of a whole run (SpecRun)                                     *)
(***************************************************************************)
\* a write of input-instructions.md with this text was attempted
WriteAttempted(text) ==
    \E i \in 1..Len(run_log) :
        /\ run_log[i].event \in {"wrote", "write_failed"}
        /\ run_log[i].path = InstructionsFile
        /\ run_log[i].content = text
RequestDue == pc = "request" \/ requests # <<>>

\* C12: no run is about to send, or has sent, a request to the model before
\* the write of input-instructions.md was attempted; the text of the attempt,
\* and of the file when it was written, is the system prompt sent as the
\* instructions of the request.
C12_WriteAttemptPrecedesRequest ==
    RequestDue =>
        /\ WriteAttempted(system_prompt)
        /\ \A r \in 1..Len(requests) : requests[r].instructions = system_prompt
        /\ InstructionsFile \in DOMAIN gen_files => gen_files[InstructionsFile] = system_prompt
C12_Witness ==
    /\ requests # <<>>
    /\ WriteAttempted(requests[1].instructions)
    /\ InstructionsFile \in DOMAIN gen_files

\* C13: whenever write_input_instructions_before_api has returned normally
\* and the request to the model is due or made, input-instructions.md exists
\* in the output directory.
C13_FileExistsWhenRequestMade ==
    RequestDue => InstructionsFile \in DOMAIN gen_files

RequestSentPcs == {"response", "save", "summary", "done"} \cup AuditStepPcs
\* C14: a run sends at most one request to the model; a run that has reached
\* the extraction of the artefacts, the audits or what follows them has sent
\* exactly one, so the audit step has sent none.
C14_SingleCall ==
    /\ Len(requests) <= 1
    /\ pc \in RequestSentPcs => Len(requests) = 1
C14_Witness ==
    /\ pc = "done"
    /\ Len(requests) = 1
    /\ audit_docs # <<>>

\* the task file is missing, unreadable, empty or whitespace-only
TaskFileBad ==
    \/ ~task_file.exists
    \/ ~task_file.readable
    \/ StripChars(task_file.text, Whitespace) = <<>>
AgentRan == launcher # "exited"
QuitEntered == \E i \in 1..Len(entered) : LowerInput(entered[i]) = "q"
\* C16: after the user has entered 'q' at the prompt of the NetLogo model, no
\* output directory is created and no request is sent to the model.
C16_QuitProcessesNoCase ==
    QuitEntered => (output_dir = "" /\ requests = <<>>)

(***************************************************************************)
(* Properties of save_extracted_artifacts (SpecSave)                       *)
(***************************************************************************)
LastCall == save_calls[Len(save_calls)]
\* the name under which a report lists a rule
RuleName(rule) == IF rule.kind = "str" THEN rule.id ELSE RuleGet(rule, "rule", "Unknown rule")
\* the report gives the verdict and, for each rule, its name followed by its line
ReportLists(report, audit_data) ==
    /\ \E l \in 1..Len(report) : report[l] = <<"## Verdict: ", Upper(audit_data.verdict)>>
    /\ \A i \in 1..Len(audit_data.rules) :
         \E l \in 1..(Len(report) - 1) :
            /\ Len(report[l]) = 4
            /\ report[l][4] = RuleName(audit_data.rules[i])
            /\ Len(report[l + 1]) = 2
            /\ report[l + 1][1] = "**Line:** "

\* C17: after a call of save_extracted_artifacts that was given audit data,
\* audit_final.json holds that data and audit.md exists and lists its verdict
\* and each of its non-compliant rules with its line, whether the rules are
\* dicts or rule-id strings.
C17_AuditReportPersisted ==
    (save_calls # <<>> /\ TruthyArg(LastCall.audit_data)) =>
        /\ "audit_final.json" \in DOMAIN save_dir
        /\ save_dir["audit_final.json"] = JsonDocument(LastCall.audit_data)
        /\ "audit.md" \in DOMAIN save_dir
        /\ ReportLists(save_dir["audit.md"], LastCall.audit_data)

\* the calls so far that had audit data
AuditCalls == {i \in 1..Len(save_calls) : TruthyArg(save_calls[i].audit_data)}
FirstOf(S) == CHOOSE i \in S : \A j \in S : i <= j
LastOf(S) == CHOOSE i \in S : \A j \in S : i >= j
\* C18: after any sequence of calls on one directory, audit_final.json holds
\* the audit data of the most recent call that had audit data (and is as it
\* was when no call had any); audit_initial.json keeps its pre-existing
\* content when it existed before the calls, holds the audit data of the first
\* call that had audit data otherwise, and does not exist when there was
\* neither.
C18_FinalIsLatestInitialIsFirst ==
    /\ IF AuditCalls # {}
       THEN /\ "audit_final.json" \in DOMAIN save_dir
            /\ save_dir["audit_final.json"] = JsonDocument(save_calls[LastOf(AuditCalls)].audit_data)
       ELSE "audit_final.json" \notin DOMAIN save_dir
    /\ IF "audit_initial.json" \in DOMAIN save_dir0
       THEN /\ "audit_initial.json" \in DOMAIN save_dir
            /\ save_dir["audit_initial.json"] = save_dir0["audit_initial.json"]
       ELSE IF AuditCalls # {}
       THEN /\ "audit_initial.json" \in DOMAIN save_dir
            /\ save_dir["audit_initial.json"] = JsonDocument(save_calls[FirstOf(AuditCalls)].audit_data)
       ELSE "audit_initial.json" \notin DOMAIN save_dir
C18_Witness ==
    /\ "audit_initial.json" \notin DOMAIN save_dir0
    /\ FirstOf(AuditCalls \cup {0}) # LastOf(AuditCalls \cup {0})
    /\ LastOf(AuditCalls \cup {0}) < Len(save_calls)
    /\ save_dir["audit_initial.json"] # save_dir["audit_final.json"]

Has(dir, name) == name \in DOMAIN dir
\* C19: a call creates diagram_initial.puml only when, after its diagram
\* step, diagram.puml exists and diagram_initial.puml does not, and then as a
\* copy of diagram.puml; it creates it whenever that is so; a call never
\* changes an existing diagram_initial.puml; a call given no PlantUML text
\* (None or "") leaves diagram.puml as it was.
C19_BaselineDiagramFrame ==
    [][/\ Has(save_dir, "diagram_initial.puml") =>
            /\ Has(save_dir', "diagram_initial.puml")
            /\ save_dir'["diagram_initial.puml"] = save_dir["diagram_initial.puml"]
       /\ (~Has(save_dir, "diagram_initial.puml") /\ Has(save_dir', "diagram_initial.puml")) =>
            /\ Has(save_dir', "diagram.puml")
            /\ save_dir'["diagram_initial.puml"] = save_dir'["diagram.puml"]
       /\ (~Has(save_dir, "diagram_initial.puml") /\ Has(save_dir', "diagram.puml")) =>
            Has(save_dir', "diagram_initial.puml")
       /\ (Len(save_calls') > Len(save_calls)
           /\ ~TruthyArg(save_calls'[Len(save_calls')].plantuml_text)) =>
            /\ Has(save_dir', "diagram.puml") = Has(save_dir, "diagram.puml")
            /\ Has(save_dir, "diagram.puml") => save_dir'["diagram.puml"] = save_dir["diagram.puml"]
      ]_vars
C19_Witness ==
    /\ Len(save_calls) >= 2
    /\ ~Has(save_dir0, "diagram.puml")
    /\ Has(save_dir, "diagram_initial.puml")
    /\ save_dir["diagram_initial.puml"] # save_dir["diagram.puml"]
    /\ ~TruthyArg(LastCall.plantuml_text)

(***************************************************************************)
(* Properties of _parse_single_call_response on the decoded object         *)
(***************************************************************************)
\* the text has a '{' ... '}' span
HasSpan(json_text) ==
    Find(json_text, LB, 0) >= 0 /\ RFind(json_text, RB) + 1 > Find(json_text, LB, 0)
\* json.loads of the span of a text
DecodeSpan(json_text) ==
    JsonLoads(Slice(json_text, Find(json_text, LB, 0), RFind(json_text, RB) + 1))
\* a JSON object was decoded from the response
\* v is a mapping containing the key k
MappingWith(v, k) == v.t = "obj" /\ k \in DOMAIN v.m
WellFormedStage(v, k) == MappingWith(v, k) /\ MappingWith(v.m[k], "data")
WellFormedDiagram(v) ==
    /\ WellFormedStage(v, "plantuml_diagram")
    /\ MappingWith(v.m["plantuml_diagram"].m["data"], "plantuml-diagram")
WellFormed(v, k) ==
    IF k = "plantuml_diagram" THEN WellFormedDiagram(v) ELSE WellFormedStage(v, k)
\* the response has just been parsed: parsed_artifacts is the parser's result
Parsed == pc = "save"
\* what decoding gave: the object, or ok = FALSE when there is no span or no JSON
Decoding ==
    IF output_text.kind = "str" /\ output_text.toks # <<>>
       /\ HasSpan(StripFences(output_text.toks))
    THEN DecodeSpan(StripFences(output_text.toks))
    ELSE [ok |-> FALSE, v |-> Null]

\* C21: in the result of the parser, operation_model and scenario are
\* non-null only if the decoded value under the key is a mapping containing
\* 'data'; plantuml_diagram is non-null only if its value is a mapping whose
\* 'data' is a mapping containing 'plantuml-diagram' (the decoded value, or
\* the one the text fallback builds); and each stage of a decoded object is
\* decided by its own value alone: it is that value when well formed and null
\* otherwise, whatever the other two stages are.
C21_SchemaGuards ==
    Parsed =>
        LET d == Decoding
        IN /\ \A k \in {"operation_model", "scenario"} :
                 parsed_artifacts[k] # Null => (d.ok /\ WellFormedStage(d.v, k))
           /\ parsed_artifacts["plantuml_diagram"] # Null =>
                 /\ MappingWith(parsed_artifacts["plantuml_diagram"], "data")
                 /\ MappingWith(parsed_artifacts["plantuml_diagram"].m["data"], "plantuml-diagram")
           /\ d.ok =>
                 \A k \in StageKeys :
                    parsed_artifacts[k] = IF WellFormed(d.v, k) THEN d.v.m[k] ELSE Null
\* a malformed operation model next to an extracted scenario and diagram
C21_Witness ==
    /\ Parsed
    /\ Decoding.ok
    /\ MappingWith(Decoding.v, "operation_model")
    /\ ~WellFormedStage(Decoding.v, "operation_model")
    /\ parsed_artifacts["operation_model"] = Null
    /\ parsed_artifacts["scenario"] # Null
    /\ parsed_artifacts["plantuml_diagram"] # Null

\* the response is a non-empty text, so the parser goes past its first test
NonEmptyText == output_text.kind = "str" /\ output_text.toks # <<>>
\* the text holds @startuml ... @enduml
HasDiagramText(toks) == Find(toks, SU, 0) >= 0 /\ Find(toks, EU, 0) > Find(toks, SU, 0)
GenFile(k) ==
    IF k = "operation_model" THEN Stage1Gen
    ELSE IF k = "scenario" THEN Stage2Gen ELSE Stage3Gen
\* the stage was extracted with data to save
HasOutput(k) ==
    /\ parsed_artifacts[k] # Null
    /\ IF k = "plantuml_diagram"
       THEN MappingWith(Get(parsed_artifacts[k], "data"), "plantuml-diagram")
       ELSE Truthy(Get(parsed_artifacts[k], "data"))
\* the stages whose audit has returned
Audited == DOMAIN audit_log

\* C23: before the generator outputs are saved no audit has run; once the
\* audit step starts, the generator output of every extracted stage that has
\* data is saved; the operation model is audited before the scenario and the
\* scenario before the diagram; a stage has an audit document only if its
\* artifact was extracted and its generator output file was written.
C23_StageOrdering ==
    /\ pc \in {"response", "save"} => (Audited = {} /\ audit_docs = <<>>)
    /\ pc \in AuditStepPcs \cup {"summary", "done"} =>
          \A k \in StageKeys : HasOutput(k) => GenFile(k) \in DOMAIN gen_files
    /\ pc \in {"audit_import", "audit_om"} => Audited = {}
    /\ pc = "audit_sc" => Audited \subseteq {"operation_model"}
    /\ pc = "audit_pd" => Audited \subseteq {"operation_model", "scenario"}
    /\ DOMAIN audit_docs = Audited
    /\ \A k \in DOMAIN audit_docs :
          /\ k \in StageKeys
          /\ parsed_artifacts[k] # Null
          /\ GenFile(k) \in DOMAIN gen_files
C23_Witness ==
    /\ pc = "done"
    /\ DOMAIN audit_docs = StageKeys
    /\ {Stage1Gen, Stage2Gen, Stage3Gen, Stage3Puml} \subseteq DOMAIN gen_files

\* the audit of stage k is due: the guard main() puts before the auditor's call
AuditDue(k) ==
    /\ HasOutput(k)
    /\ k = "operation_model" => IsDict(Get(parsed_artifacts[k], "data"))
AuditorOf(k) ==
    IF k = "operation_model" THEN "audit_operation_model"
    ELSE IF k = "scenario" THEN "audit_scenario" ELSE "audit_diagram"
\* C24: when the auditor of one stage has raised, the audit step still ends
\* with an audit document for every other stage whose audit was due.
C24_AuditsIndependent ==
    AuditsOver =>
        \A k \in StageKeys :
            (AuditDue(k) /\ audit_error \in {AuditorOf(j) : j \in StageKeys \ {k}})
                => k \in DOMAIN audit_docs

====
